---- MODULE Spec2Model ----
(***************************************************************************)
(* A model of mfai/pytorch/models/archesweather.py: the construction and   *)
(* the forward pass of EarthSpecificBlock (zero-pad, cyclic shift, window  *)
(* partition, attention, window reconstruction, inverse shift, crop,       *)
(* residual combination), the block loop of EarthSpecificLayer and         *)
(* CondBasicLayer, and the construction checks of PatchRecoveryConv and    *)
(* ArchesWeather.                                                          *)
(*                                                                         *)
(* A tensor is a record [shape, data]: data is the row-major (C order)     *)
(* flattening of the elements, which is the order torch's reshape and view *)
(* keep.  Multi-indices are 0-based as in Python, sequences are 1-based.   *)
(***************************************************************************)
EXTENDS Integers, Sequences, FiniteSets, TLC

\* ------------------------------------------------------------------ bounds
Batch == 2
MaxZ == 1
MaxH == 2
MaxW == 3
MaxWin == 2
Dim == 2
MaxDepth == 3
ValueMod == 10007
MaxDownfactor == 8
MaxSpatialDims == 3

\* ---------------------------------------------------------- index arithmetic
RECURSIVE Prod(_)
Prod(s) == IF s = <<>> THEN 1 ELSE Head(s) * Prod(Tail(s))

RECURSIVE SumSeq(_)
SumSeq(s) == IF s = <<>> THEN 0 ELSE Head(s) + SumSeq(Tail(s))

\* A sequence given as a function over 1..n, as the tuple of its elements.
Seq1(s) == SubSeq(s, 1, Len(s))

\* Row-major strides of a shape.
RECURSIVE Strides(_)
Strides(shape) ==
    IF shape = <<>> THEN <<>>
    ELSE <<Prod(Tail(shape))>> \o Strides(Tail(shape))

\* The multi-index of flat offset i.
Unravel(i, shape) ==
    LET st == Strides(shape)
    IN  Seq1([k \in 1..Len(shape) |-> (i \div st[k]) % shape[k]])

Numel(t) == Prod(t.shape)

Tensor(shape, data) == [shape |-> Seq1(shape), data |-> Seq1(data)]

\* Tensor.reshape / Tensor.view: the same elements in the same row-major
\* order under a new shape; one entry of the shape may be -1 and is inferred.
InferShape(n, shape) ==
    LET known == Prod(Seq1([k \in 1..Len(shape) |->
                          IF shape[k] = -1 THEN 1 ELSE shape[k]]))
    IN  Seq1([k \in 1..Len(shape) |->
            IF shape[k] = -1 THEN n \div known ELSE shape[k]])

Reshape(t, shape) == Tensor(InferShape(Numel(t), shape), t.data)

\* The flat offset, in a source tensor, of the element that lands at flat
\* offset i of an output of shape oshp (strides ost): output axis k, at index
\* d, reads the source at index (d + add[k]) mod modu[k] of the axis whose
\* stride is coef[k].  Summed over the axes k, k-1, ..., 1.
RECURSIVE SrcOffset(_, _, _, _, _, _, _)
SrcOffset(i, ost, oshp, add, modu, coef, k) ==
    IF k = 0 THEN 0
    ELSE ((((i \div ost[k]) % oshp[k]) + add[k]) % modu[k]) * coef[k]
         + SrcOffset(i, ost, oshp, add, modu, coef, k - 1)

\* The same for a pure permutation of the axes: no displacement.
RECURSIVE PermOffset(_, _, _, _, _)
PermOffset(i, ost, oshp, coef, k) ==
    IF k = 0 THEN 0
    ELSE ((i \div ost[k]) % oshp[k]) * coef[k]
         + PermOffset(i, ost, oshp, coef, k - 1)

\* einops.rearrange used as a pure axis permutation: output axis k is input
\* axis perm[k].
Rearrange(t, perm) ==
    LET n     == Len(perm)
        oshp  == Seq1([k \in 1..n |-> t.shape[perm[k]]])
        ist   == Strides(t.shape)
        coef  == Seq1([k \in 1..n |-> ist[perm[k]]])
        ost   == Strides(oshp)
    IN  Tensor(oshp, [i \in 1..Len(t.data) |->
            t.data[PermOffset(i - 1, ost, oshp, coef, n) + 1]])

\* Tensor.roll(shifts, dims): the element at index i of axis d moves to
\* (i + shift) mod n, so the new element at j is the old one at (j - shift) mod n.
\* shifts[a] is the shift of axis a (0 for an axis that is not rolled).
Roll(t, shifts) ==
    LET n   == Len(t.shape)
        st  == Strides(t.shape)
        neg == Seq1([a \in 1..n |-> 0 - shifts[a]])
    IN  Tensor(t.shape, [i \in 1..Len(t.data) |->
            t.data[SrcOffset(i - 1, st, t.shape, neg, t.shape, st, n) + 1]])

\* Element values are kept modulo ValueMod, so that the arithmetic of a stack
\* of blocks stays within the integers of the checker; equal values stay equal.
Wrap(v) == v % ValueMod

\* Elementwise sum of two tensors of one shape.
AddT(a, b) ==
    Tensor(a.shape, [i \in 1..Len(a.data) |-> Wrap(a.data[i] + b.data[i])])

\* ------------------------------------------------ CustomPad3d (pangu.py)
\* The minimal padding that makes extent n a multiple of window w, split as
\* evenly as possible between the two sides.
PadAmount(n, w) == (w - (n % w)) % w

PadBefore(n, w) == PadAmount(n, w) \div 2

PadAfter(n, w) == PadAmount(n, w) - PadBefore(n, w)

\* The padding descriptor (left, right, top, bottom, front, back) of a
\* (Z, H, W) volume: left/right pad W, top/bottom pad H, front/back pad Z.
GetPadding(size, win) ==
    << PadBefore(size[3], win[3]), PadAfter(size[3], win[3]),
       PadBefore(size[2], win[2]), PadAfter(size[2], win[2]),
       PadBefore(size[1], win[1]), PadAfter(size[1], win[1]) >>

PaddedSize(size, padding) ==
    << size[1] + padding[5] + padding[6],
       size[2] + padding[3] + padding[4],
       size[3] + padding[1] + padding[2] >>

\* ConstantPad3d on a (b, c, z, h, w) tensor: zeros around the last three axes.
Pad3D(t, padding) ==
    LET oshp == << t.shape[1], t.shape[2],
                   t.shape[3] + padding[5] + padding[6],
                   t.shape[4] + padding[3] + padding[4],
                   t.shape[5] + padding[1] + padding[2] >>
        ost  == Strides(oshp)
        ist  == Strides(t.shape)
        off  == << 0, 0, 0 - padding[5], 0 - padding[3], 0 - padding[1] >>
        at(i, a) == ((i \div ost[a]) % oshp[a]) + off[a]
        inside(i) == \A a \in 3..5 : at(i, a) >= 0 /\ at(i, a) < t.shape[a]
    IN  Tensor(oshp, [i \in 1..Prod(oshp) |->
            IF inside(i - 1)
            THEN t.data[SrcOffset(i - 1, ost, oshp, off, oshp, ist, 5) + 1]
            ELSE 0])

\* Basic slicing t[lo[1]:hi[1], ..., lo[n]:hi[n]] with 0 <= lo and 0 <= hi.
Slice(t, lo, hi) ==
    LET n    == Len(t.shape)
        top(a) == IF hi[a] < t.shape[a] THEN hi[a] ELSE t.shape[a]
        oshp == Seq1([a \in 1..n |-> IF top(a) > lo[a] THEN top(a) - lo[a] ELSE 0])
        ost  == Strides(oshp)
        ist  == Strides(t.shape)
    IN  Tensor(oshp, [i \in 1..Prod(oshp) |->
            t.data[SrcOffset(i - 1, ost, oshp, lo, t.shape, ist, n) + 1]])

\* --------------------------------------- window partition and reconstruction
\* A partition that groups by (Z/wz, wh, W/ww) instead of (Z/wz, H/wh, W/ww).
WindowPartitionMixed(t, win) ==
    LET r1 == Reshape(t, << t.shape[1],
                            t.shape[2] \div win[1], win[1],
                            t.shape[3] \div win[2], win[2],
                            t.shape[4] \div win[3], win[3], -1 >>)
        r2 == Rearrange(r1, <<1, 2, 5, 6, 3, 4, 7, 8>>)
    IN  Reshape(r2, << -1, win[1] * win[2] * win[3], t.shape[5] >>)

\* EarthSpecificBlock.forward, "Reorganize data to calculate window attention":
\* (b, Z, H, W, c) -> (b*(Z/wz)*(H/wh)*(W/ww), wz*wh*ww, c).
WindowPartition(t, win) ==
    LET r1 == Reshape(t, << t.shape[1],
                            t.shape[2] \div win[1], win[1],
                            t.shape[3] \div win[2], win[2],
                            t.shape[4] \div win[3], win[3], -1 >>)
        r2 == Rearrange(r1, <<1, 2, 4, 6, 3, 5, 7, 8>>)
    IN  Reshape(r2, << -1, win[1] * win[2] * win[3], t.shape[5] >>)

\* EarthSpecificBlock.forward, "Reorganize data to original shapes":
\* windows -> (batch_size, padded_z, padded_h, padded_w, c).
WindowReverseBad(t, win, batch_size, padded) ==
    LET r1 == Reshape(t, << batch_size,
                            padded[1] \div win[1], padded[2] \div win[2],
                            padded[3] \div win[3],
                            win[1], win[2], win[3], -1 >>)
        r2 == Rearrange(r1, <<1, 2, 5, 3, 7, 4, 6, 8>>)
    IN  Reshape(r2, << batch_size, padded[1], padded[2], padded[3], -1 >>)

WindowReverse(t, win, batch_size, padded) ==
    LET r1 == Reshape(t, << batch_size,
                            padded[1] \div win[1], padded[2] \div win[2],
                            padded[3] \div win[3],
                            win[1], win[2], win[3], -1 >>)
        r2 == Rearrange(r1, <<1, 2, 5, 3, 6, 4, 7, 8>>)
    IN  Reshape(r2, << batch_size, padded[1], padded[2], padded[3], -1 >>)

\* ------------------------------- generate_3d_attention_mask (pangu.py)
\* The additive bias of a masked token pair (the comment above the mask
\* generation: "set the matrix element to -1000 when it is not adjacent").
MaskValue == -1000

\* The label of position i of an axis of the shifted volume: the window its
\* pre-shift position (i + shift) mod n lies in.
AxisLabel(i, n, w, shift) == ((i + shift) % n) \div w

\* Whether position i of an axis of the shifted volume came around the
\* boundary of the axis when the volume was rolled by -shift.
Wrapped(i, n, shift) == i + shift >= n

\* The label tensor of a padded (Z, H, W) volume, shape (1, Z, H, W, 1): the
\* pre-shift window index on each axis and, in the limited-area setting, the
\* side of the latitude and of the longitude boundary the position is on.
LabelVolume(padded, win, shift, lam) ==
    LET shp == << 1, padded[1], padded[2], padded[3], 1 >>
        st  == Strides(shp)
        pos(i, a) == (i \div st[a]) % shp[a]
    IN  Tensor(shp, [i \in 1..Prod(shp) |->
            << AxisLabel(pos(i - 1, 2), padded[1], win[1], shift[1]),
               AxisLabel(pos(i - 1, 3), padded[2], win[2], shift[2]),
               AxisLabel(pos(i - 1, 4), padded[3], win[3], shift[3]),
               lam /\ Wrapped(pos(i - 1, 3), padded[2], shift[2]),
               lam /\ Wrapped(pos(i - 1, 4), padded[3], shift[3]) >>])

\* One entry of the mask: 0 for a pair with equal labels, MaskValue otherwise.
MaskEntryRowwise(li, lj) ==
    IF li[1] = lj[1] /\ li[2] = lj[2] /\ li[3] = lj[3] /\ ~li[4] /\ ~li[5]
    THEN 0 ELSE MaskValue

MaskEntry(li, lj) == IF li = lj THEN 0 ELSE MaskValue

\* The mask of a shifted volume x (b, Z, H, W, c): shape
\* (Z/wz, (H/wh)*(W/ww), wz*wh*ww, wz*wh*ww), the windows in the order of the
\* window partition of one sample.
Generate3DAttentionMask(t, win, shift, lam) ==
    LET padded == << t.shape[2], t.shape[3], t.shape[4] >>
        labels == WindowPartition(LabelVolume(padded, win, shift, lam), win)
        vol    == win[1] * win[2] * win[3]
        nwin   == labels.shape[1]
        shp    == << padded[1] \div win[1],
                     (padded[2] \div win[2]) * (padded[3] \div win[3]),
                     vol, vol >>
    IN  Tensor(shp, [k \in 1..(nwin * vol * vol) |->
            LET w == (k - 1) \div (vol * vol)
                i == ((k - 1) \div vol) % vol
                j == (k - 1) % vol
            IN  MaskEntry(labels.data[w * vol + i + 1],
                          labels.data[w * vol + j + 1])])

\* The mask as attention receives it when no mask is generated (None).
NoMask == Tensor(<<>>, <<>>)

\* --------------------------------------------- EarthAttention3D (pangu.py)
\* Window attention: every token of a window is combined with the tokens of
\* the same window that the mask leaves visible to it, channel by channel.
\* kind "identity" returns the windows unchanged; kind "mix" sums the visible
\* tokens.  A window b*n+k of the batch uses entry k of the mask.
EarthAttention3D(kind, xw, mask, batch_size) ==
    LET vol  == xw.shape[2]
        ch   == xw.shape[3]
        per  == xw.shape[1] \div batch_size
        visible(w, i, j) ==
            \/ mask = NoMask
            \/ mask.data[((w % per) * vol + i) * vol + j + 1] = 0
        mix(k) ==
            LET w == (k - 1) \div (vol * ch)
                i == ((k - 1) \div ch) % vol
                c == (k - 1) % ch
            IN  Wrap(SumSeq(Seq1([j \in 1..vol |->
                    IF visible(w, i, j - 1)
                    THEN xw.data[(w * vol + (j - 1)) * ch + c + 1] ELSE 0])))
    IN  IF kind = "identity" THEN xw
        ELSE Tensor(xw.shape, [k \in 1..Len(xw.data) |-> mix(k)])

\* ------------------------------------------------ learned per-token maps
\* LayerNorm and the MLP act on each token on its own; each is an injective
\* per-element map, so that a token stays recognisable after it.
LayerNorm(v) == 2 * v + 1

MLP(v) == 3 * v + 2

\* self.norm1(x), self.norm2(x) and self.mlp(x) on a tensor of tokens.
NormT(t) == Tensor(t.shape, [i \in 1..Len(t.data) |-> Wrap(LayerNorm(t.data[i]))])

MlpT(t) == Tensor(t.shape, [i \in 1..Len(t.data) |-> Wrap(MLP(t.data[i]))])

\* The conditioning tensor when there is no conditioning (None).
NoCond == Tensor(<<>>, <<>>)

\* cond_embed.chunk(6, dim=1)[k][b, c] of a (batch, 6*dim) tensor, k in 0..5:
\* shift_msa, scale_msa, gate_msa, shift_mlp, scale_mlp, gate_mlp.
Chunk(cond, k, b, c) ==
    LET dim == cond.shape[2] \div 6
    IN  cond.data[b * cond.shape[2] + k * dim + c + 1]

\* t * (1 + scale[:, None, :]) + shift[:, None, :] on a (b, tokens, c) tensor,
\* scale and shift being chunks ks and kh of cond.
Modulate(t, cond, ks, kh) ==
    LET n == t.shape[2]
        ch == t.shape[3]
    IN  Tensor(t.shape, [i \in 1..Len(t.data) |->
            LET b == (i - 1) \div (n * ch)
                c == (i - 1) % ch
            IN  Wrap(t.data[i] * (1 + Chunk(cond, ks, b, c)) + Chunk(cond, kh, b, c))])

\* gate[:, None, :] * t on a (b, tokens, c) tensor, gate being chunk kg of cond.
GateIgnored(t, cond, kg) == t

Gate(t, cond, kg) ==
    LET n == t.shape[2]
        ch == t.shape[3]
    IN  Tensor(t.shape, [i \in 1..Len(t.data) |->
            Wrap(t.data[i] * Chunk(cond, kg, (i - 1) \div (n * ch), (i - 1) % ch))])

\* ------------------------------------------- EarthSpecificBlock.__init__
\* The window check of the constructor.
WindowSizeOkOdd(ws) == \A k \in 1..Len(ws) : ws[k] % 2 = 0

WindowSizeOk(ws) == \A k \in 1..Len(ws) : ws[k] = 1 \/ ws[k] % 2 = 0

\* tuple(w_size // 2 + w_size % 2 for w_size in window_size).
ShiftSizeFloor(ws) == [k \in 1..Len(ws) |-> ws[k] \div 2]

ShiftSize(ws) == [k \in 1..Len(ws) |-> (ws[k] \div 2) + (ws[k] % 2)]

\* ------------------------------------------- EarthSpecificBlock.forward
\* x = norm1(x), then the pre-attention modulation when conditioned.
NormedInput(tokens, cond) ==
    IF cond = NoCond THEN NormT(tokens)
    ELSE Modulate(NormT(tokens), cond, 1, 0)

\* x.view(embedding_shape), the zero padding between the two rearranges.
PadVolume(t, embedding_shape, padding) ==
    LET v == Reshape(t, embedding_shape)
        p == Pad3D(Rearrange(v, <<1, 5, 2, 3, 4>>), padding)
    IN  Rearrange(p, <<1, 3, 4, 5, 2>>)

\* x.roll(shifts=(s0, s1, s2), dims=(1, 2, 3)) with s = sign * shift_size.
RollVolumeWrongAxis(t, shift, sign) ==
    Roll(t, << 0, sign * shift[1], sign * shift[3], sign * shift[2], 0 >>)

RollVolume(t, shift, sign) ==
    Roll(t, << 0, sign * shift[1], sign * shift[2], sign * shift[3], 0 >>)

\* "Crop the zero-padding": x[:, front : Z - back, top : H - bottom,
\* left : W - right, :].
CropVolumeSwapped(t, padding) ==
    Slice(t, << 0, padding[6], padding[4], padding[2], 0 >>,
             << t.shape[1], t.shape[2] - padding[5], t.shape[3] - padding[3],
                t.shape[4] - padding[1], t.shape[5] >>)

CropVolume(t, padding) ==
    Slice(t, << 0, padding[5], padding[3], padding[1], 0 >>,
             << t.shape[1], t.shape[2] - padding[6], t.shape[3] - padding[4],
                t.shape[4] - padding[2], t.shape[5] >>)

\* x.reshape(shape=(batch_size, -1, channels)) of a (b, pl, lat, lon, c) volume.
FlattenTokens(t) == Reshape(t, << t.shape[1], -1, t.shape[5] >>)

\* The axial attention branch: tokens regrouped so that the level axis is the
\* sequence axis ("b (pl lat lon) c -> (b lat lon) pl c"), the positional
\* embedding and the attention along the levels, and the regrouping undone.
\* The attention along an axis sums the tokens of the sequence; the positional
\* embedding adds the level index plus one.
AxialBranch(t, pl, lat, lon) ==
    LET b  == t.shape[1]
        ch == t.shape[3]
        g  == Reshape(Rearrange(Reshape(t, <<b, pl, lat, lon, ch>>),
                                <<1, 3, 4, 2, 5>>),
                      << b * lat * lon, pl, ch >>)
        e(k) == g.data[k] + (((k - 1) \div ch) % pl) + 1
        a  == Tensor(g.shape, [k \in 1..Len(g.data) |->
                  Wrap(SumSeq(Seq1([q \in 1..pl |->
                      e((((k - 1) \div (pl * ch)) * pl + (q - 1)) * ch
                        + ((k - 1) % ch) + 1)])))])
    IN  Reshape(Rearrange(Reshape(a, <<b, lat, lon, pl, ch>>),
                          <<1, 4, 2, 3, 5>>),
                << b, pl * lat * lon, ch >>)

\* self.drop_path (timm DropPath).  Outside training it returns its input.
\* In training it draws one keep/drop decision per sample at every call,
\* zeroes the dropped samples and divides the kept ones by the keep
\* probability: a factor of KeepScale, for a drop_path_ratio of 1/2.
KeepScale == 2

\* The decisions of one call, one per sample: all kept, or sample 0 dropped.
KeepAll == [b \in 1..Batch |-> TRUE]

DropFirst == [b \in 1..Batch |-> b # 1]

DropMasks == { KeepAll, DropFirst }

\* drop_path(t) on a (b, tokens, c) tensor with decisions keep and factor scale.
DropPath(t, keep, scale) ==
    LET per == t.shape[2] * t.shape[3]
    IN  Tensor(t.shape, [i \in 1..Len(t.data) |->
            IF keep[((i - 1) \div per) + 1] THEN Wrap(scale * t.data[i]) ELSE 0])

\* What the three calls of self.drop_path of one forward do: the call on the
\* window attention (attn), on the axial attention (axial) and on the MLP
\* (mlp).  NoDrop is a forward outside training.
NoDrop == [scale |-> 1, attn |-> KeepAll, axial |-> KeepAll, mlp |-> KeepAll]

DropDecisions ==
    { NoDrop }
    \cup { [scale |-> KeepScale, attn |-> a, axial |-> b, mlp |-> c] :
              a \in DropMasks, b \in DropMasks, c \in DropMasks }

\* The same with one call for the window and the axial attention together.
ResidualJoint(shortcut, xw, x2, axial, cond, dp) ==
    IF cond = NoCond
    THEN LET a == IF axial THEN AddT(xw, x2) ELSE xw
             b == AddT(shortcut, DropPath(a, dp.attn, dp.scale))
         IN  AddT(b, DropPath(MlpT(NormT(b)), dp.mlp, dp.scale))
    ELSE LET a == IF axial THEN AddT(xw, x2) ELSE xw
             b == AddT(shortcut, Gate(DropPath(a, dp.attn, dp.scale), cond, 2))
             m == Modulate(NormT(b), cond, 4, 3)
         IN  AddT(b, DropPath(Gate(MlpT(m), cond, 5), dp.mlp, dp.scale))

\* "Main calculation stages": the residual combination.  xw is the cropped
\* window-attention output, x2 the axial branch (used when axial is TRUE),
\* dp what the calls of self.drop_path do.
Residual(shortcut, xw, x2, axial, cond, dp) ==
    IF cond = NoCond
    THEN LET a == AddT(shortcut, DropPath(xw, dp.attn, dp.scale))
             b == IF axial THEN AddT(a, DropPath(x2, dp.axial, dp.scale)) ELSE a
         IN  AddT(b, DropPath(MlpT(NormT(b)), dp.mlp, dp.scale))
    ELSE LET a == IF axial THEN AddT(xw, DropPath(x2, dp.axial, dp.scale)) ELSE xw
             b == AddT(shortcut, Gate(DropPath(a, dp.attn, dp.scale), cond, 2))
             m == Modulate(NormT(b), cond, 4, 3)
         IN  AddT(b, DropPath(Gate(MlpT(m), cond, 5), dp.mlp, dp.scale))

\* -------------------------------------------------------------- the state
VARIABLES
    pc,                     \* where the constructor or the forward call is
    err,                    \* the exception raised, "" when none
    checkpoint_activation,  \* self.checkpoint_activation
    lam,                    \* self.lam
    window_size,            \* self.window_size
    shift_size,             \* self.shift_size
    data_size,              \* data_size[-3:], as pad3D was built from it
    padding,                \* self.pad3D.padding
    padded_size,            \* self.pad3D.padded_size
    modules,                \* the sub-modules built so far
    attention,              \* the weights of self.attention
    shortcut,               \* forward: shortcut
    cond_embed,             \* forward: cond_embed
    roll,                   \* forward: roll
    x,                      \* forward: x
    mask,                   \* forward: mask
    x_window,               \* forward: x_window
    attn_args,              \* the arguments self.attention was called with
    cropped,                \* forward: (pl, lat, lon) read off the cropped x
    depth,                  \* layer: len(self.blocks)
    adaLN,                  \* layer: the weights of adaLN_modulation[-1]
    cond_emb,               \* layer forward: cond_emb
    layer_in,               \* layer forward: x as passed in
    idx,                    \* layer forward: i of the loop over the blocks
    calls,                  \* layer forward: the block calls made so far
    component,              \* which constructor ran: "block", "conv", "model"
    downfactor,             \* PatchRecoveryConv: downfactor
    upsampling_heads,       \* PatchRecoveryConv: len(self.upsampling_heads)
    upsampled               \* PatchRecoveryConv.forward: lat/lon scale applied

blockVars == << checkpoint_activation, lam, window_size, shift_size, data_size,
                padding, padded_size, modules, attention >>

callVars == << shortcut, cond_embed, roll, x, mask, x_window, attn_args, cropped >>

layerVars == << depth, adaLN, cond_emb, layer_in, idx, calls >>

convVars == << downfactor, upsampling_heads, upsampled >>

vars == << pc, err, blockVars, callVars, layerVars, convVars, component >>

Empty == Tensor(<<>>, <<>>)

Init ==
    /\ pc = "new"
    /\ err = ""
    /\ checkpoint_activation = FALSE
    /\ lam = FALSE
    /\ window_size = <<>>
    /\ shift_size = <<>>
    /\ data_size = <<>>
    /\ padding = <<>>
    /\ padded_size = <<>>
    /\ modules = {}
    /\ attention = ""
    /\ shortcut = Empty
    /\ cond_embed = NoCond
    /\ roll = FALSE
    /\ x = Empty
    /\ mask = NoMask
    /\ x_window = Empty
    /\ attn_args = <<>>
    /\ cropped = <<>>
    /\ depth = 0
    /\ adaLN = ""
    /\ cond_emb = <<>>
    /\ layer_in = Empty
    /\ idx = 0
    /\ calls = <<>>
    /\ component = ""
    /\ downfactor = 0
    /\ upsampling_heads = 0
    /\ upsampled = 0

\* ------------------------------------------------------------ the inputs
DataSizes == { <<z, h, w>> : z \in 1..MaxZ, h \in 1..MaxH, w \in 1..MaxW }

\* window_size as the constructor may receive it: every triple over 0..MaxWin
\* and, the annotation tuple[int, int, int] not being enforced, some tuples
\* of two and of four components.
WindowSizes ==
    [1..3 -> 0..MaxWin]
    \cup { <<3, 6, 12>>, <<2, 3, 2>>, <<1, 2, 4>> }
    \cup { <<2, 2>>, <<1, 2>>, <<2, 2, 2, 2>>, <<1, 2, 2, 1>>, <<2, 2, 3, 2>> }

\* Whether a block is built with axial attention, in the block specification:
\* with and without for the largest data size, without for the others.
AxialChoices(ds) == IF ds = << MaxZ, MaxH, MaxW >> THEN BOOLEAN ELSE {FALSE}

AttentionKinds == {"identity", "mix"}

\* The tokens of a call: (batch, Z*H*W, dim), every element with its own label.
Tokens(b, size) ==
    Tensor(<< b, size[1] * size[2] * size[3], Dim >>,
           [i \in 1..(b * size[1] * size[2] * size[3] * Dim) |-> i])

\* A modulation tensor (batch, 6*dim) whose chunk k is filled with
\* scale * (k + 1), k in 0..5.
Modulation(b, scale) ==
    Tensor(<< b, 6 * Dim >>,
           [i \in 1..(b * 6 * Dim) |->
               scale * ((((i - 1) % (6 * Dim)) \div Dim) + 1)])

\* cond_embed of a call of the block specification.
CondEmbeds(b) == { NoCond, Modulation(b, 1), Modulation(b, 0) }

\* The window component of axis k as the collaborators read it.
Win3(ws) == [k \in 1..3 |-> IF k <= Len(ws) THEN ws[k] ELSE 1]

\* -------------------------------------- EarthSpecificBlock.__init__ (1/2)
\* The attributes, the window check and the shift geometry.
BlockNew ==
    /\ pc = "new"
    /\ \E ws \in WindowSizes, ca \in BOOLEAN, l \in BOOLEAN :
        /\ checkpoint_activation' = ca
        /\ lam' = l
        /\ window_size' = ws
        /\ IF ~WindowSizeOk(ws)
           THEN /\ err' = "ValueError: Window size must be 1 or divisible by 2"
                /\ pc' = "raised"
                /\ shift_size' = shift_size
           ELSE /\ err' = err
                /\ pc' = "checked"
                /\ shift_size' = ShiftSize(ws)
    /\ component' = "block"
    /\ UNCHANGED << data_size, padding, padded_size, modules, attention, callVars,
                    layerVars, convVars >>

\* ------------------------------------- EarthSpecificBlock.__init__ (2/2)
\* "Initialize several operations": drop_path, norm1, pad3D, attention, norm2,
\* mlp and, with axial_attn, axis_pos_embed and axial_attn.  The padding takes
\* the remainder of each extent by its window, so a window of 0 is a division
\* by zero.  What pad3D and attention make of a window_size that has not three
\* components is left open: they either reject it with an error of their own
\* or read its first three components.
BlockBuild ==
    /\ pc = "checked"
    /\ \E ds \in DataSizes, kind \in AttentionKinds : \E axial \in AxialChoices(ds) :
        IF \E k \in 1..Len(window_size) : window_size[k] = 0
        THEN /\ err' = "ZeroDivisionError"
             /\ pc' = "raised"
             /\ modules' = {"drop_path", "norm1"}
             /\ UNCHANGED << data_size, padding, padded_size, attention >>
        ELSE /\ \/ /\ Len(window_size) # 3
                   /\ err' = "Error: pad3D or attention rejects window_size"
                   /\ pc' = "raised"
                \/ /\ err' = err
                   /\ pc' = "ready"
             /\ data_size' = ds
             /\ padding' = GetPadding(ds, Win3(window_size))
             /\ padded_size' = PaddedSize(ds, GetPadding(ds, Win3(window_size)))
             /\ attention' = kind
             /\ modules' = {"drop_path", "norm1", "pad3D", "attention", "norm2", "mlp"}
                           \cup (IF axial THEN {"axis_pos_embed", "axial_attn"} ELSE {})
    /\ UNCHANGED << checkpoint_activation, lam, window_size, shift_size, callVars,
                    layerVars, convVars, component >>

\* ----------------------------------------- EarthSpecificBlock.forward
\* The shortcut, norm1, the pre-attention modulation, the view as a volume
\* and the zero padding.  embedding_shape is (batch, Z, H, W, dim) of the
\* data_size the block was built for.
BlockEnter ==
    /\ pc = "ready"
    /\ \E c \in CondEmbeds(Batch), r \in BOOLEAN :
        /\ shortcut' = Tokens(Batch, data_size)
        /\ cond_embed' = c
        /\ roll' = r
        /\ x' = PadVolume(NormedInput(Tokens(Batch, data_size), c),
                          << Batch, data_size[1], data_size[2], data_size[3], Dim >>,
                          padding)
    /\ pc' = "padded"
    /\ UNCHANGED << err, blockVars, mask, x_window, attn_args, cropped,
                    layerVars, convVars, component >>

\* "if roll:" the cyclic shift, the check of the shift geometry and the mask;
\* otherwise no mask.  The shift reads shift_size[0..2] before its length is
\* checked.
BlockRollMask ==
    /\ pc = "padded"
    /\ IF ~roll
       THEN /\ mask' = NoMask
            /\ pc' = "masked"
            /\ UNCHANGED << err, x >>
       ELSE IF Len(shift_size) < 3
       THEN /\ err' = "IndexError"
            /\ pc' = "raised"
            /\ UNCHANGED << mask, x >>
       ELSE IF Len(shift_size) # 3
       THEN /\ err' = "ValueError: Shift size must be 3D"
            /\ pc' = "raised"
            /\ x' = RollVolume(x, shift_size, -1)
            /\ mask' = mask
       ELSE /\ x' = RollVolume(x, shift_size, -1)
            /\ mask' = Generate3DAttentionMask(RollVolume(x, shift_size, -1),
                                               window_size, shift_size, lam)
            /\ pc' = "masked"
            /\ err' = err
    /\ UNCHANGED << blockVars, shortcut, cond_embed, roll, x_window, attn_args, cropped,
                    layerVars, convVars, component >>

\* "Reorganize data to calculate window attention".
BlockPartition ==
    /\ pc = "masked"
    /\ IF Len(window_size) < 3
       THEN /\ err' = "IndexError"
            /\ pc' = "raised"
            /\ x_window' = x_window
       ELSE /\ x_window' = WindowPartition(x, window_size)
            /\ pc' = "windowed"
            /\ err' = err
    /\ UNCHANGED << blockVars, shortcut, cond_embed, roll, x, mask, attn_args, cropped,
                    layerVars, convVars, component >>

\* The positional arguments self.attention is called with: directly, or
\* through checkpoint(self.attention, ...).
AttentionArgs(ca) ==
    IF ca THEN << "x_window", "mask", "batch_size", "padded_z", "padded_h" >>
    ELSE << "x_window", "mask", "batch_size" >>

\* "Apply 3D window attention with Earth-Specific bias".  The attention takes
\* the windows, the mask and the batch size; a call with other arguments is a
\* TypeError.
BlockAttention ==
    /\ pc = "windowed"
    /\ attn_args' = AttentionArgs(checkpoint_activation)
    /\ IF Len(AttentionArgs(checkpoint_activation)) # 3
       THEN /\ err' = "TypeError"
            /\ pc' = "raised"
            /\ x_window' = x_window
       ELSE /\ x_window' = EarthAttention3D(attention, x_window, mask, x.shape[1])
            /\ pc' = "attended"
            /\ err' = err
    /\ UNCHANGED << blockVars, shortcut, cond_embed, roll, x, mask, cropped,
                    layerVars, convVars, component >>

\* "Reorganize data to original shapes".
BlockReconstruct ==
    /\ pc = "attended"
    /\ x' = WindowReverse(x_window, window_size, x.shape[1],
                          << x.shape[2], x.shape[3], x.shape[4] >>)
    /\ pc' = "reconstructed"
    /\ UNCHANGED << err, blockVars, shortcut, cond_embed, roll, mask, x_window,
                    attn_args, cropped, layerVars, convVars, component >>

\* "if roll: Roll x back for half of the window".
BlockUnroll ==
    /\ pc = "reconstructed"
    /\ x' = IF roll THEN RollVolume(x, shift_size, 1) ELSE x
    /\ pc' = "unrolled"
    /\ UNCHANGED << err, blockVars, shortcut, cond_embed, roll, mask, x_window,
                    attn_args, cropped, layerVars, convVars, component >>

\* "Crop the zero-padding" and "Reshape the tensor back to the input shape".
BlockCrop ==
    /\ pc = "unrolled"
    /\ LET c == CropVolume(x, padding)
       IN  /\ cropped' = << c.shape[2], c.shape[3], c.shape[4] >>
           /\ x' = FlattenTokens(c)
    /\ pc' = "cropped"
    /\ UNCHANGED << err, blockVars, shortcut, cond_embed, roll, mask, x_window,
                    attn_args, layerVars, convVars, component >>

\* The axial branch when the block has one, and the residual combination,
\* outside training or in training with the decisions the drop-path takes.
BlockResidual ==
    /\ pc = "cropped"
    /\ \E dp \in DropDecisions :
        LET axial == "axial_attn" \in modules
            x2 == IF axial
                  THEN AxialBranch(x, cropped[1], cropped[2], cropped[3])
                  ELSE x
        IN  x' = Residual(shortcut, x, x2, axial, cond_embed, dp)
    /\ pc' = "returned"
    /\ UNCHANGED << err, blockVars, shortcut, cond_embed, roll, mask, x_window,
                    attn_args, cropped, layerVars, convVars, component >>

\* -------------------------- EarthSpecificBlock.forward as one call
\* F applied to the value of v, v evaluated once.
Bind(v, F(_)) == CHOOSE y \in { F(u) : u \in {v} } : TRUE

\* The whole forward, outside training, of the block the state describes, on
\* tokens t with conditioning c and roll r: the exception it raises ("" when
\* none) and the tokens it returns, step by step as above.
BlockForward(t, c, r) ==
    IF r /\ Len(shift_size) < 3
    THEN [err |-> "IndexError", out |-> Empty]
    ELSE IF r /\ Len(shift_size) # 3
    THEN [err |-> "ValueError: Shift size must be 3D", out |-> Empty]
    ELSE IF Len(window_size) < 3
    THEN [err |-> "IndexError", out |-> Empty]
    ELSE IF Len(AttentionArgs(checkpoint_activation)) # 3
    THEN [err |-> "TypeError", out |-> Empty]
    ELSE
    Bind(PadVolume(NormedInput(t, c),
                   << t.shape[1], data_size[1], data_size[2], data_size[3],
                      t.shape[3] >>,
                   padding),
      LAMBDA padded :
    Bind(IF r THEN RollVolume(padded, shift_size, -1) ELSE padded,
      LAMBDA rolled :
    Bind(IF r THEN Generate3DAttentionMask(rolled, window_size, shift_size, lam)
         ELSE NoMask,
      LAMBDA m :
    Bind(WindowPartition(rolled, window_size),
      LAMBDA xw :
    Bind(EarthAttention3D(attention, xw, m, rolled.shape[1]),
      LAMBDA att :
    Bind(WindowReverse(att, window_size, rolled.shape[1],
                       << rolled.shape[2], rolled.shape[3], rolled.shape[4] >>),
      LAMBDA rec :
    Bind(IF r THEN RollVolume(rec, shift_size, 1) ELSE rec,
      LAMBDA back :
    Bind(CropVolume(back, padding),
      LAMBDA crop :
    Bind(FlattenTokens(crop),
      LAMBDA flat :
    Bind(IF "axial_attn" \in modules
         THEN AxialBranch(flat, crop.shape[2], crop.shape[3], crop.shape[4])
         ELSE flat,
      LAMBDA x2 :
        [err |-> "",
         out |-> Residual(t, flat, x2, "axial_attn" \in modules, c, NoDrop)]
    ))))))))))

\* ------------------------------------------------ EarthSpecificLayer
\* "Roll the input every two blocks": the roll flag of block i.
LayerRollEven(i) == i % 2 = 0

LayerRoll(i) == ~(i % 2 = 0)

\* cond_embed as block i of the layer receives it, c being the cond_embed of
\* the layer call: "cond_embed=cond_embed" in both branches of the loop.
BlockCondUnrolledOnly(c, i) == IF i % 2 = 0 THEN c ELSE NoCond

BlockCond(c, i) == c

\* The blocks i, i+1, ..., depth-1 run in turn on tokens t with conditioning
\* c: the exception raised ("" when none) and the tokens returned.
RECURSIVE LayerForward(_, _, _)
LayerForward(t, c, i) ==
    IF i >= depth THEN [err |-> "", out |-> t]
    ELSE Bind(BlockForward(t, BlockCond(c, i), LayerRoll(i)),
              LAMBDA r : IF r.err # "" THEN r ELSE LayerForward(r.out, c, i + 1))

\* ---------------------------------------------------- CondBasicLayer
\* The activation in front of the modulation projection.
SiLU(v) == IF v > 0 THEN v ELSE 0

\* adaLN_modulation(cond_emb) for cond_emb with one value per sample:
\* (batch, 6*dim).  The projection is all zero right after construction
\* ("zero"); once trained, output column j has weight (j div dim) + 1 and
\* bias 1.
AdaLNOnes(w, e) ==
    Tensor(<< Len(e), 6 * Dim >>, [i \in 1..(Len(e) * 6 * Dim) |-> 1])

AdaLN(w, e) ==
    Tensor(<< Len(e), 6 * Dim >>,
           [i \in 1..(Len(e) * 6 * Dim) |->
               IF w = "zero" THEN 0
               ELSE Wrap(((((i - 1) % (6 * Dim)) \div Dim) + 1)
                         * SiLU(e[((i - 1) \div (6 * Dim)) + 1]) + 1)])

\* cond_emb of a layer call: None, or one value per sample.
LayerCondEmbs == { <<>>, [b \in 1..Batch |-> b], [b \in 1..Batch |-> 0] }

\* CondBasicLayer.forward: the modulation, computed once, and the entry into
\* EarthSpecificLayer.forward.
LayerEnter ==
    /\ pc = "layer_ready"
    /\ \E e \in LayerCondEmbs :
        /\ cond_emb' = e
        /\ cond_embed' = IF e = <<>> THEN NoCond ELSE AdaLN(adaLN, e)
    /\ layer_in' = Tokens(Batch, data_size)
    /\ x' = Tokens(Batch, data_size)
    /\ idx' = 0
    /\ calls' = <<>>
    /\ pc' = "layer_loop"
    /\ UNCHANGED << err, blockVars, shortcut, roll, mask, x_window, attn_args,
                    cropped, depth, adaLN, convVars, component >>

\* One turn of "for i, block in enumerate(self.blocks)": the call of block i.
LayerBlock ==
    /\ pc = "layer_loop"
    /\ idx < depth
    /\ \E r \in {LayerRoll(idx)}, c \in {BlockCond(cond_embed, idx)} :
       \E res \in {BlockForward(x, c, r)} :
           IF res.err # ""
           THEN /\ err' = res.err
                /\ pc' = "raised"
                /\ calls' = Append(calls, [index |-> idx, roll |-> r,
                                           cond |-> c, input |-> x,
                                           output |-> Empty])
                /\ UNCHANGED << x, idx >>
           ELSE /\ x' = res.out
                /\ idx' = idx + 1
                /\ calls' = Append(calls, [index |-> idx, roll |-> r,
                                           cond |-> c, input |-> x,
                                           output |-> res.out])
                /\ UNCHANGED << err, pc >>
    /\ UNCHANGED << blockVars, shortcut, cond_embed, roll, mask, x_window,
                    attn_args, cropped, depth, adaLN, cond_emb, layer_in,
                    convVars, component >>

\* "return x" after the last block.
LayerReturn ==
    /\ pc = "layer_loop"
    /\ idx >= depth
    /\ pc' = "layer_returned"
    /\ UNCHANGED << err, blockVars, callVars, layerVars, convVars, component >>

\* A constructed CondBasicLayer: depth blocks of one geometry.
LayerDataSizes == { <<1, 2, 3>> }

LayerWindows == { <<1, 1, 2>>, <<2, 2, 2>> }

InitLayer ==
    /\ pc = "layer_ready"
    /\ err = ""
    /\ checkpoint_activation \in BOOLEAN
    /\ lam = FALSE
    /\ window_size \in LayerWindows
    /\ shift_size = ShiftSize(window_size)
    /\ data_size \in LayerDataSizes
    /\ padding = GetPadding(data_size, window_size)
    /\ padded_size = PaddedSize(data_size, padding)
    /\ \E axial \in BOOLEAN :
        modules = {"drop_path", "norm1", "pad3D", "attention", "norm2", "mlp"}
                  \cup (IF axial THEN {"axis_pos_embed", "axial_attn"} ELSE {})
    /\ attention = "mix"
    /\ shortcut = Empty
    /\ cond_embed = NoCond
    /\ roll = FALSE
    /\ x = Empty
    /\ mask = NoMask
    /\ x_window = Empty
    /\ attn_args = <<>>
    /\ cropped = <<>>
    /\ depth \in 0..MaxDepth
    /\ adaLN \in {"zero", "trained"}
    /\ cond_emb = <<>>
    /\ layer_in = Empty
    /\ idx = 0
    /\ calls = <<>>
    /\ component = "layer"
    /\ downfactor = 0
    /\ upsampling_heads = 0
    /\ upsampled = 0

NextLayer == LayerEnter \/ LayerBlock \/ LayerReturn

SpecLayer == InitLayer /\ [][NextLayer]_vars

\* --------------------------------------------------- PatchRecoveryConv
\* np.log2(downfactor).is_integer(): log2 of 0 is -inf and of a negative
\* number nan, neither an integer.
IsPowerOfTwoLoose(d) == d = 0 \/ (d >= 1 /\ \E k \in 0..d : 2 ^ k = d)

IsPowerOfTwo(d) == d >= 1 /\ \E k \in 0..d : 2 ^ k = d

\* int(np.log2(downfactor)) of a power of two.
Log2(d) == CHOOSE k \in 0..d : 2 ^ k = d

\* len(self.upsampling_heads): one head per element of
\* range(1, int(np.log2(downfactor))) when downfactor > 2.
UpsamplingHeads(d) == IF d > 2 THEN Log2(d) - 1 ELSE 0

\* PatchRecoveryConv.__init__.
ConvNew ==
    /\ pc = "new"
    /\ component' = "conv"
    /\ \E d \in 0..MaxDownfactor :
        /\ downfactor' = d
        /\ IF ~IsPowerOfTwo(d)
           THEN /\ err' = "ValueError: downfactor should be a power of 2"
                /\ pc' = "raised"
                /\ upsampling_heads' = upsampling_heads
           ELSE /\ err' = err
                /\ pc' = "conv_ready"
                /\ upsampling_heads' = UpsamplingHeads(d)
    /\ UNCHANGED << blockVars, callVars, layerVars, upsampled >>

\* PatchRecoveryConv.forward: one interpolation of scale 2 before self.head
\* and one before each of the upsampling heads.
ConvForward ==
    /\ pc = "conv_ready"
    /\ upsampled' = 2 * (2 ^ upsampling_heads)
    /\ pc' = "conv_returned"
    /\ UNCHANGED << err, blockVars, callVars, layerVars, downfactor,
                    upsampling_heads, component >>

\* ------------------------------------------------------- ArchesWeather
\* The exception of EarthSpecificBlock.__init__ for window_size ws when the
\* collaborators read the first three components ("" when none).
BlockInitError(ws) ==
    IF ~WindowSizeOk(ws)
    THEN "ValueError: Window size must be 1 or divisible by 2"
    ELSE IF \E k \in 1..Len(ws) : ws[k] = 0 THEN "ZeroDivisionError"
    ELSE ""

ModelWindows == { <<1, 2, 2>>, <<3, 6, 12>>, <<2, 2, 2, 2>> }

\* ArchesWeather.__init__: the check of settings.spatial_dims, the four
\* layers (blocks of settings.window_size; layer1 has 2 * depth_multiplier of
\* them) and, with settings.conv_head, the convolutional head with
\* downfactor plevel_patch_size[-1].
ModelNew ==
    /\ pc = "new"
    /\ component' = "model"
    /\ \E sd \in 1..MaxSpatialDims, ws \in ModelWindows, ca \in BOOLEAN,
          conv_head \in BOOLEAN, d \in 0..MaxDownfactor :
        IF sd # 2
        THEN /\ err' = "ValueError: Unsupported spatial dimension"
             /\ pc' = "raised"
             /\ UNCHANGED << blockVars, depth, adaLN, convVars >>
        ELSE /\ checkpoint_activation' = ca
             /\ lam' = FALSE
             /\ window_size' = ws
             /\ IF BlockInitError(ws) # ""
                THEN /\ err' = BlockInitError(ws)
                     /\ pc' = "raised"
                     /\ UNCHANGED << shift_size, data_size, padding, padded_size,
                                     modules, attention, depth, adaLN, convVars >>
                ELSE \/ /\ Len(ws) # 3
                        /\ err' = "Error: pad3D or attention rejects window_size"
                        /\ pc' = "raised"
                        /\ UNCHANGED << shift_size, data_size, padding, padded_size,
                                        modules, attention, depth, adaLN, convVars >>
                     \/ /\ shift_size' = ShiftSize(ws)
                        /\ data_size' = <<1, 2, 3>>
                        /\ padding' = GetPadding(<<1, 2, 3>>, Win3(ws))
                        /\ padded_size' = PaddedSize(<<1, 2, 3>>,
                                                     GetPadding(<<1, 2, 3>>, Win3(ws)))
                        /\ modules' = {"drop_path", "norm1", "pad3D", "attention",
                                       "norm2", "mlp"}
                        /\ attention' = "mix"
                        /\ depth' = 2
                        /\ adaLN' = "zero"
                        /\ IF conv_head /\ ~IsPowerOfTwo(d)
                           THEN /\ err' = "ValueError: downfactor should be a power of 2"
                                /\ pc' = "raised"
                                /\ downfactor' = d
                                /\ UNCHANGED << upsampling_heads, upsampled >>
                           ELSE /\ err' = err
                                /\ pc' = "model_ready"
                                /\ downfactor' = IF conv_head THEN d ELSE 0
                                /\ upsampling_heads' =
                                       IF conv_head THEN UpsamplingHeads(d) ELSE 0
                                /\ upsampled' = upsampled
    /\ UNCHANGED << callVars, cond_emb, layer_in, idx, calls >>

\* ArchesWeather.forward: the layers run on the embedded tokens (layer3
\* through gradient_checkpoint.checkpoint with the same three arguments when
\* settings.checkpoint_activation), then the head.
ModelForward ==
    /\ pc = "model_ready"
    /\ \E res \in {LayerForward(Tokens(Batch, data_size), NoCond, 0)} :
           IF res.err # ""
           THEN /\ err' = res.err
                /\ pc' = "raised"
                /\ UNCHANGED << x, upsampled >>
           ELSE /\ x' = res.out
                /\ pc' = "model_returned"
                /\ err' = err
                /\ upsampled' = IF downfactor # 0
                                THEN 2 * (2 ^ upsampling_heads) ELSE upsampled
    /\ UNCHANGED << blockVars, shortcut, cond_embed, roll, mask, x_window,
                    attn_args, cropped, layerVars, downfactor, upsampling_heads,
                    component >>

Next ==
    \/ BlockNew
    \/ BlockBuild
    \/ BlockEnter
    \/ BlockRollMask
    \/ BlockPartition
    \/ BlockAttention
    \/ BlockReconstruct
    \/ BlockUnroll
    \/ BlockCrop
    \/ BlockResidual
    \/ ConvNew
    \/ ConvForward
    \/ ModelNew
    \/ ModelForward

Spec == Init /\ [][Next]_vars

\* ================================================================ properties
\* The padded, not yet shifted volume of the call in progress.
PaddedInput ==
    PadVolume(NormedInput(shortcut, cond_embed),
              << Batch, data_size[1], data_size[2], data_size[3], Dim >>,
              padding)

\* x.shape[1:4] of a (b, Z, H, W, c) volume.
Extent(t) == << t.shape[2], t.shape[3], t.shape[4] >>

\* C1: the reconstruction step applied to the windows the partition step
\* produced returns the padded volume exactly, every element at its original
\* (batch, z, h, w, channel) index.
C1_ReconstructOfPartition ==
    pc = "windowed" =>
        WindowReverse(x_window, window_size, x.shape[1], Extent(x)) = x

\* Windows of (2, 2, 2) on a padded (2, 2, 4) volume: the partition moved
\* elements and the reconstruction put them back.
C1_Witness ==
    /\ pc = "windowed"
    /\ window_size = <<2, 2, 2>>
    /\ x.shape = <<2, 2, 2, 4, 2>>
    /\ x_window.shape = <<4, 8, 2>>
    /\ x_window.data # x.data
    /\ WindowReverse(x_window, window_size, x.shape[1], Extent(x)) = x

\* The positions (b, z, h, w) of a volume of the shape of t, numbered from 1
\* in row-major order.
PositionLabels(t) ==
    Tensor(<< t.shape[1], t.shape[2], t.shape[3], t.shape[4], 1 >>,
           [i \in 1..(t.shape[1] * t.shape[2] * t.shape[3] * t.shape[4]) |-> i])

\* (b, z div wz, h div wh, w div ww) of position p (numbered from 1).
WindowOf(p, t, win) ==
    LET i == Unravel(p - 1, << t.shape[1], t.shape[2], t.shape[3], t.shape[4] >>)
    IN  << i[1], i[2] \div win[1], i[3] \div win[2], i[4] \div win[3] >>

\* C2: the partition step is a bijection between the positions of the padded
\* volume and the (window, slot) pairs: batch*(Z/wz)*(H/wh)*(W/ww) windows of
\* wz*wh*ww tokens, every position in exactly one slot, and two positions are
\* in the same window iff they are of the same sample and their z, h, w have
\* equal quotients by wz, wh, ww; x_window holds, in each slot, the token of
\* the position the slot stands for.
C2_PartitionBijection ==
    pc = "windowed" =>
        \A P \in { WindowPartition(PositionLabels(x), window_size) } :
            LET vol == window_size[1] * window_size[2] * window_size[3]
                n   == x.shape[1] * x.shape[2] * x.shape[3] * x.shape[4]
                ch  == x.shape[5]
            IN  /\ x_window.shape =
                       << x.shape[1] * (x.shape[2] \div window_size[1])
                                     * (x.shape[3] \div window_size[2])
                                     * (x.shape[4] \div window_size[3]),
                          vol, ch >>
                /\ P.shape = << x_window.shape[1], vol, 1 >>
                /\ Len(P.data) = n
                /\ { P.data[k] : k \in 1..n } = 1..n
                /\ \A k1, k2 \in 1..n :
                       ((k1 - 1) \div vol = (k2 - 1) \div vol)
                       <=> (WindowOf(P.data[k1], x, window_size)
                            = WindowOf(P.data[k2], x, window_size))
                /\ \A k \in 1..n : \A c \in 1..ch :
                       x_window.data[(k - 1) * ch + c]
                       = x.data[(P.data[k] - 1) * ch + c]

\* Windows of more than one token on two axes, several windows per sample.
C2_Witness ==
    /\ pc = "windowed"
    /\ window_size = <<1, 2, 2>>
    /\ x.shape = <<2, 1, 2, 4, 2>>
    /\ x_window.shape = <<4, 4, 2>>
    /\ WindowPartition(PositionLabels(x), window_size).data
           = << 1, 2, 5, 6, 3, 4, 7, 8, 9, 10, 13, 14, 11, 12, 15, 16 >>

\* C3: with the attention replaced by the identity, for roll False and True,
\* the volume after the inverse roll is the padded input, the crop removes
\* the padding on each of the six sides, and the tokens returned by the crop
\* are the normed input tokens, each at its index in (level, lat, lon) order,
\* level*lat*lon of them per sample.
C3_GeometryInverse ==
    attention = "identity" =>
        /\ (pc = "unrolled" =>
               /\ x = PaddedInput
               /\ Extent(x) = << data_size[1] + padding[5] + padding[6],
                                 data_size[2] + padding[3] + padding[4],
                                 data_size[3] + padding[1] + padding[2] >>)
        /\ (pc = "cropped" =>
               /\ cropped = data_size
               /\ x.shape = << Batch, data_size[1] * data_size[2] * data_size[3],
                               Dim >>
               /\ x = NormedInput(shortcut, cond_embed))

\* A rolled call whose volume was padded on one side only.
C3_Witness ==
    /\ pc = "cropped"
    /\ attention = "identity"
    /\ roll
    /\ window_size = <<1, 2, 4>>
    /\ data_size = <<1, 1, 3>>
    /\ padding = <<0, 1, 0, 1, 0, 0>>
    /\ x = NormedInput(shortcut, cond_embed)

\* C4: a forward call of the layer calls block 0, 1, ..., depth-1 in this
\* order, each once, block 0 on the input of the layer and every other block
\* on the output of the block before it, block i with roll = TRUE iff i is
\* odd; the layer returns the output of the last block.
C4_BlocksInOrder ==
    /\ Len(calls) <= depth
    /\ \A k \in 1..Len(calls) :
           /\ calls[k].index = k - 1
           /\ calls[k].roll <=> ((k - 1) % 2 = 1)
           /\ calls[k].input = IF k = 1 THEN layer_in ELSE calls[k - 1].output
           /\ (k < Len(calls) \/ pc # "raised") =>
                  calls[k].output
                  = BlockForward(calls[k].input, calls[k].cond, (k - 1) % 2 = 1).out
    /\ pc = "layer_returned" =>
           /\ Len(calls) = depth
           /\ x = IF depth = 0 THEN layer_in ELSE calls[depth].output

\* A layer of three blocks that returned: unrolled, rolled, unrolled.
C4_Witness ==
    /\ pc = "layer_returned"
    /\ depth = 3
    /\ Len(calls) = 3
    /\ ~calls[1].roll /\ calls[2].roll /\ ~calls[3].roll
    /\ calls[2].input = calls[1].output
    /\ x = calls[3].output

\* C5: with roll FALSE the volume is the padded input, not shifted, and the
\* mask is None; with roll TRUE the volume is the padded input rolled by
\* -shift_size on the three spatial axes and the mask is the one generated
\* from that volume; the attention is called on the windows of that volume
\* with that mask; after the reconstruction the volume is rolled by
\* +shift_size iff roll.
C5_RollAndMask ==
    /\ pc \in {"masked", "windowed", "attended"} =>
           IF roll
           THEN /\ x = Roll(PaddedInput, << 0, 0 - shift_size[1], 0 - shift_size[2],
                                            0 - shift_size[3], 0 >>)
                /\ mask = Generate3DAttentionMask(x, window_size, shift_size, lam)
                /\ mask # NoMask
           ELSE /\ x = PaddedInput
                /\ mask = NoMask
    /\ pc = "attended" =>
           /\ attn_args[2] = "mask"
           /\ x_window = EarthAttention3D(attention,
                                          WindowPartition(x, window_size),
                                          mask, Batch)
    /\ pc = "unrolled" =>
           \A rec \in { WindowReverse(x_window, window_size, Batch, padded_size) } :
               x = IF roll
                   THEN Roll(rec, << 0, shift_size[1], shift_size[2],
                                     shift_size[3], 0 >>)
                   ELSE rec

\* A rolled call with different shifts on latitude and longitude, after the
\* attention: the shift moved the volume and the mask hides some pairs.
C5_Witness ==
    /\ pc = "attended"
    /\ roll
    /\ shift_size = <<1, 1, 2>>
    /\ data_size = <<1, 2, 3>>
    /\ x # PaddedInput
    /\ \E k \in 1..Len(mask.data) : mask.data[k] = MaskValue
    /\ attn_args = << "x_window", "mask", "batch_size" >>

\* mask[w, i, j] of a mask of shape (nZ, nHW, vol, vol), w over nZ*nHW.
MaskAt(m, w, i, j) == m.data[(w * m.shape[3] + i) * m.shape[4] + j + 1]

AllOneOrEven ==
    \A k \in 1..Len(window_size) : window_size[k] = 1 \/ window_size[k] % 2 = 0

\* C7: the constructor of the block raises the window error exactly when
\* some component of window_size is neither 1 nor even; it raises before any
\* sub-module is built and leaves no block; a window_size of components 1 or
\* even passes the check.
C7_WindowCheckFirst ==
    (component = "block" /\ pc # "new") =>
        IF AllOneOrEven
        THEN /\ err # "ValueError: Window size must be 1 or divisible by 2"
             /\ shift_size # <<>>
        ELSE /\ pc = "raised"
             /\ err = "ValueError: Window size must be 1 or divisible by 2"
             /\ modules = {}
             /\ shift_size = <<>>
             /\ padding = <<>>
             /\ attention = ""

\* The constructor called with window_size (3, 6, 12).
C7_Witness ==
    /\ component = "block"
    /\ window_size = <<3, 6, 12>>
    /\ pc = "raised"
    /\ err = "ValueError: Window size must be 1 or divisible by 2"
    /\ modules = {}

\* The constructors are running: nothing has been returned to the caller.
InConstruction == pc \in {"new", "checked"}

\* C8 as stated: every configuration error, the shift geometry error
\* included, is raised while the component is being constructed.
C8_AllRaisedAtConstruction ==
    [][(err' # err /\ err' \in
            {"ValueError: Window size must be 1 or divisible by 2",
             "ValueError: Shift size must be 3D",
             "ValueError: Unsupported spatial dimension",
             "ValueError: downfactor should be a power of 2"})
       => InConstruction]_vars

\* downfactor is 2 ^ k for a natural k.
PowerOfTwo(d) == \E k \in 0..MaxDownfactor : 2 ^ k = d

\* C8, amended: the window, spatial dimension and downfactor errors are raised
\* while the component is being constructed, so that a constructed block has
\* a window_size of components 1 or even and a constructed convolutional head
\* a downfactor that is a power of two; the shift geometry error is raised by
\* a forward call with roll = TRUE, never by a constructor.
C8_EagerExceptShift ==
    /\ [](/\ (component \in {"block", "model"} /\ err = "" /\ ~InConstruction)
                 => AllOneOrEven
          /\ (component = "conv" /\ err = "" /\ ~InConstruction)
                 => PowerOfTwo(downfactor)
          /\ (component = "model" /\ err = "" /\ ~InConstruction
                 /\ downfactor # 0) => PowerOfTwo(downfactor))
    /\ [][err' # err =>
            /\ err' \in {"ValueError: Window size must be 1 or divisible by 2",
                         "ValueError: Unsupported spatial dimension",
                         "ValueError: downfactor should be a power of 2"}
                   => InConstruction
            /\ err' = "ValueError: Shift size must be 3D"
                   => (~InConstruction /\ Len(shift_size) > 3
                       /\ (component = "block" => roll))]_vars

\* A forward call with roll = TRUE on a block that was constructed with a
\* window_size of four components raised the shift geometry error.
C8_Witness ==
    /\ component = "block"
    /\ pc = "raised"
    /\ err = "ValueError: Shift size must be 3D"
    /\ window_size = <<2, 2, 2, 2>>
    /\ "attention" \in modules
    /\ roll
    /\ shortcut # Empty

\* C9 as stated: right after construction the layer returns, for a
\* conditioning vector, what it returns for cond_emb = None.
C9_SameAsUnconditioned ==
    (pc = "layer_returned" /\ adaLN = "zero" /\ cond_emb # <<>>) =>
        x = LayerForward(layer_in, NoCond, 0).out

\* C9, amended: right after construction the modulation is all zero, and the
\* layer called with a conditioning vector returns its input tokens unchanged
\* (both gated residual branches of every block vanish); that is the output
\* for cond_emb = None when the layer has no block.
C9_ZeroInitIsIdentity ==
    (pc = "layer_returned" /\ adaLN = "zero" /\ cond_emb # <<>>) =>
        /\ \A k \in 1..Len(cond_embed.data) : cond_embed.data[k] = 0
        /\ cond_embed.shape = << Batch, 6 * Dim >>
        /\ x = layer_in
        /\ depth = 0 => x = LayerForward(layer_in, NoCond, 0).out

\* A freshly constructed layer of two blocks called with a conditioning
\* vector: it returned its input, which is not what it returns without one.
C9_Witness ==
    /\ pc = "layer_returned"
    /\ adaLN = "zero"
    /\ cond_emb = << 1, 2 >>
    /\ depth = 2
    /\ Len(calls) = 2
    /\ x = layer_in
    /\ LayerForward(layer_in, NoCond, 0).err = ""
    /\ x # LayerForward(layer_in, NoCond, 0).out

\* C10 as stated: with checkpoint_activation the attention is called on the
\* arguments of the direct call (windows, mask, batch size) and the call
\* succeeds as the direct call does.
C10_CheckpointSameCall ==
    (checkpoint_activation /\ attn_args # <<>>) =>
        /\ attn_args = << "x_window", "mask", "batch_size" >>
        /\ err # "TypeError"
        /\ pc # "raised"

\* C11: the modulation of a layer call is computed once, from cond_emb, and
\* every block of the layer, rolled or not, receives that same tensor as its
\* cond_embed; with cond_emb = None every block receives None and the layer
\* returns what the loop of EarthSpecificLayer.forward returns without
\* conditioning.
C11_SameModulationEveryBlock ==
    pc \in {"layer_loop", "layer_returned", "raised"} =>
        /\ cond_embed = IF cond_emb = <<>> THEN NoCond
                        ELSE Tensor(<< Batch, 6 * Dim >>,
                                    AdaLN(adaLN, cond_emb).data)
        /\ \A k \in 1..Len(calls) : calls[k].cond = cond_embed
        /\ (pc = "layer_returned" /\ cond_emb = <<>>) =>
               /\ \A k \in 1..Len(calls) : calls[k].cond = NoCond
               /\ x = LayerForward(layer_in, NoCond, 0).out

\* A trained layer of three blocks called with a conditioning vector: the
\* unrolled and the rolled blocks got the one non-zero modulation.
C11_Witness ==
    /\ pc = "layer_returned"
    /\ adaLN = "trained"
    /\ cond_emb = << 1, 2 >>
    /\ depth = 3
    /\ Len(calls) = 3
    /\ calls[1].cond = calls[2].cond /\ calls[2].cond = calls[3].cond
    /\ calls[2].roll
    /\ calls[2].cond # NoCond
    /\ \E k \in 1..Len(cond_embed.data) : cond_embed.data[k] # 0

\* C12 as stated: in a block with axial attention the window and the axial
\* output are summed and pass through drop-path once, one decision per sample
\* covering both, before the (gated) addition to the shortcut, and the MLP
\* branch passes through drop-path once.
C12_OneDropPathForBoth ==
    [][(pc = "cropped" /\ pc' = "returned" /\ "axial_attn" \in modules) =>
          \E dp \in DropDecisions :
              x' = ResidualJoint(shortcut, x,
                                 AxialBranch(x, cropped[1], cropped[2], cropped[3]),
                                 TRUE, cond_embed, dp)]_vars

\* C13: once the window check of the constructor has passed, shift_size has
\* one component per component of window_size, each the ceiling of half the
\* window: 1 for a window of 1 and window/2 for an even window; in a block
\* whose sub-modules were built, 1 <= shift <= window on every axis and
\* shift < window where window >= 2.
C13_ShiftIsCeilHalf ==
    (component = "block" /\ pc # "new" /\ AllOneOrEven) =>
        /\ Len(shift_size) = Len(window_size)
        /\ \A k \in 1..Len(window_size) :
               /\ 2 * shift_size[k] >= window_size[k]
               /\ 2 * shift_size[k] <= window_size[k] + 1
               /\ window_size[k] = 1 => shift_size[k] = 1
               /\ window_size[k] % 2 = 0 => 2 * shift_size[k] = window_size[k]
               /\ "pad3D" \in modules =>
                      /\ 1 <= shift_size[k]
                      /\ shift_size[k] <= window_size[k]
                      /\ window_size[k] >= 2 => shift_size[k] < window_size[k]

\* A constructed block with a window of 1, of 2 and of 4.
C13_Witness ==
    /\ component = "block"
    /\ pc = "ready"
    /\ window_size = <<1, 2, 4>>
    /\ shift_size = <<1, 1, 2>>
    /\ "pad3D" \in modules

\* C14 as stated: a forward call with roll = TRUE on a block whose shift_size
\* has not exactly three components fails with the shift geometry error, and
\* with no other exception before it.
C14_ShiftErrorFirst ==
    (component = "block" /\ shortcut # Empty /\ roll /\ Len(shift_size) # 3
         /\ pc \notin {"ready", "padded"}) =>
        /\ pc = "raised"
        /\ err = "ValueError: Shift size must be 3D"
        /\ mask = NoMask

\* C15 as stated: the convolutional head accepts a downfactor iff it is a
\* power of two, and for every accepted downfactor the upsampling of forward,
\* a factor 2 before self.head and a factor 2 per upsampling head, is the
\* downfactor: 2 ^ (1 + len(upsampling_heads)) = downfactor.
C15_UpsamplingIsDownfactor ==
    component = "conv" =>
        /\ pc = "raised" => ~PowerOfTwo(downfactor)
        /\ pc \in {"conv_ready", "conv_returned"} =>
               /\ PowerOfTwo(downfactor)
               /\ 2 ^ (1 + upsampling_heads) = downfactor
        /\ pc = "conv_returned" => upsampled = downfactor

\* C16: a block called with a modulation that is all zero returns its input
\* tokens, the shortcut, exactly: both gated residual branches are nulled,
\* whatever the window attention, the axial attention, the MLP and the
\* drop-path give, for roll FALSE and TRUE.
C16_ZeroGateNullsBranches ==
    (component = "block" /\ pc = "returned" /\ cond_embed # NoCond
         /\ \A k \in 1..Len(cond_embed.data) : cond_embed.data[k] = 0) =>
        /\ x.shape = shortcut.shape
        /\ \A i \in 1..Len(shortcut.data) : x.data[i] = shortcut.data[i]

\* A rolled call, with zero modulation, of a block with axial attention and
\* an attention that mixes the tokens of a window.
C16_Witness ==
    /\ component = "block"
    /\ pc = "returned"
    /\ cond_embed = Modulation(Batch, 0)
    /\ roll
    /\ attention = "mix"
    /\ "axial_attn" \in modules
    /\ window_size = <<2, 2, 2>>
    /\ x = Tokens(Batch, data_size)
====
